---- MODULE Spec2Model ----
(***************************************************************************)
(* Model of the agent orchestration layer of fastapi-agent-backend         *)
(* (src/app/agents.py): the three framework adapters, their execute        *)
(* contract (availability check, build, worker + 60 s timeout, result      *)
(* extraction, exception handler) and AgentOrchestrator.execute_task       *)
(* (alias resolution, lookup, availability / "mock" fallback, dispatch,    *)
(* exception conversion).                                                  *)
(*                                                                         *)
(* Conventions                                                             *)
(*  - A Python str is a sequence of word tokens; an f-string is the        *)
(*    concatenation of its literal words and its interpolated values.      *)
(*  - Optional[T] is a tuple: None is <<>>, a present value x is <<x>>.    *)
(*  - Exceptions are instances of Exception subclasses, [cls, args];       *)
(*    str(e) is "" for no args and args[0] for one argument.               *)
(*  - time.time() is the clock `now`, in microseconds; it never runs       *)
(*    backwards.                                                           *)
(***************************************************************************)
EXTENDS Integers, Sequences, FiniteSets, TLC

VARIABLES agents, now, call, worker, ready, store, metrics, req

\* the state of the API layer and of the event loop around the orchestrator
apiVars == <<ready, store, metrics, req>>

vars == <<agents, now, call, worker, ready, store, metrics, req>>

(***************************************************************************)
(* Bounds of the model                                                     *)
(***************************************************************************)
\* time.time() advances by small steps of TickUs microseconds, or by a whole timeout
TickUs == 1500
\* clock readings are a multiple of the timeout plus at most MaxNowSlack
\* microseconds, and at most TimeoutUs + MaxNowSlack
MaxNowSlack == 3000
\* resolution of the clock: readings of time.time() per second
UsPerSecond == 1000000

\* execute_task calls scheduled and not yet started, at most
MaxReady == 2

(***************************************************************************)
(* Program constants                                                       *)
(***************************************************************************)
\* future.result(timeout=60)
TimeoutSeconds == 60
\* _measure_execution_time: (seconds) * 1000 -> milliseconds
MsPerSecond == 1000
\* metadata "agents_used" of PraisonAI / CrewAI and of AG2
AgentsUsedSingle == 1
AgentsUsedPair == 2

TimeoutUs == TimeoutSeconds * UsPerSecond
MaxNow == TimeoutUs + MaxNowSlack

(***************************************************************************)
(* Optional values and text                                                *)
(***************************************************************************)
None == <<>>
Some(x) == <<x>>

\* the empty Python string
EmptyText == <<>>

\* Python `sub in text`, on word tokens
Contains(text, sub) ==
    \E i \in 0..(Len(text) - Len(sub)) :
        \A j \in 1..Len(sub) : text[i + j] = sub[j]

(***************************************************************************)
(* Exceptions                                                              *)
(***************************************************************************)
NoExc == [cls |-> "none", args |-> <<>>]

\* concurrent.futures raises TimeoutError() with no arguments
TimeoutError == [cls |-> "TimeoutError", args |-> <<>>]

\* exceptions a framework (or a stub adapter) can raise, each with a message
Exceptions ==
    { [cls |-> "RuntimeError",   args |-> << <<"boom">> >>],
      [cls |-> "ValueError",   args |-> << <<"bad", "input">> >>] }

\* str(e)
StrExc(e) == IF e.args = <<>> THEN EmptyText ELSE e.args[1]

(***************************************************************************)
(* AgentResponse                                                           *)
(***************************************************************************)
AgentResponse(success, result, error, execution_time_ms, token_usage, metadata) ==
    [success |-> success, result |-> result, error |-> error,
     execution_time_ms |-> execution_time_ms,
     token_usage |-> token_usage, metadata |-> metadata]

\* AgentResponse(success=False, error=...): every other field keeps its default None
FailureResponse(error) ==
    AgentResponse(FALSE, None, Some(error), None, None, None)

(***************************************************************************)
(* Adapters (BaseAgent subclasses)                                         *)
(***************************************************************************)
FrameworkClasses == {"PraisonAIAgent", "CrewAIAgent", "AG2Agent"}

\* a test double standing in for an adapter (tests assign orchestrator.agents)
StubClass == "Stub"

\* BaseAgent.__init__: name, available
Adapter(name, cls, available) == [name |-> name, cls |-> cls, available |-> available]

\* the `if not self.available` return of each adapter's execute
NotAvailableResponse(cls) ==
    CASE cls = "PraisonAIAgent" -> FailureResponse(<<"PraisonAI", "agent", "not", "available">>)
      [] cls = "CrewAIAgent"    -> FailureResponse(<<"CrewAI", "agent", "not", "available">>)
      [] cls = "AG2Agent"       -> FailureResponse(<<"AG2/AutoGen", "agent", "not", "available">>)

\* the "framework" value of token_usage and metadata
FrameworkTag(cls) ==
    CASE cls = "PraisonAIAgent" -> "praisonai"
      [] cls = "CrewAIAgent"    -> "crewai"
      [] cls = "AG2Agent"       -> "ag2"

\* the "agents_used" value of metadata
AgentsUsed(cls) == IF cls = "AG2Agent" THEN AgentsUsedPair ELSE AgentsUsedSingle

\* what the framework call can leave behind for the extraction step:
\*   structured / structured_kp : result.pydantic set, without / with key points
\*   plain        : a truthy result (AG2: last chat message has text content)
\*   falsy        : a falsy result (AG2: empty chat history)
\*   no_content   : AG2, last chat message without a 'content' key
\*   none_content : AG2, last chat message whose 'content' is None
\*   malformed    : reading the result raises (missing attribute, bad message)
ResultShapes(cls) ==
    CASE cls = "PraisonAIAgent" -> {"structured", "structured_kp", "plain", "falsy", "malformed"}
      [] cls = "CrewAIAgent"    -> {"plain", "falsy", "malformed"}
      [] cls = "AG2Agent"       -> {"plain", "falsy", "no_content", "none_content", "malformed"}

ExtractRaises(shape) == shape = "malformed"

ExtractError == [cls |-> "AttributeError", args |-> << <<"no", "attribute">> >>]

\* the text handed to AgentResponse(result=...) on the success path
ExtractResult(cls, shape) ==
    CASE cls = "PraisonAIAgent" ->
            (CASE shape = "structured" ->
                    Some(<<"Title:", "T", "Content:", "C", "Summary:", "S">>)
               [] shape = "structured_kp" ->
                    Some(<<"Title:", "T", "Content:", "C", "Summary:", "S">>
                         \o <<"Key", "Points:">> \o <<"-", "P">>)
               [] shape = "plain" -> Some(<<"R">>)
               [] OTHER -> Some(<<"No", "response", "generated">>))
      [] cls = "CrewAIAgent" ->
            (CASE shape = "plain" -> Some(<<"R">>)
               [] OTHER -> Some(<<"None">>))
      [] cls = "AG2Agent" ->
            (CASE shape = "plain" -> Some(<<"R">>)
               [] shape = "no_content" -> Some(<<"No", "response">>)
               [] shape = "none_content" -> None
               [] OTHER -> Some(<<"No", "response", "generated">>))

\* variant: the subtraction the wrong way round
measure_execution_time_Reversed(start_time) ==
    (start_time - now) \div (UsPerSecond \div MsPerSecond)

\* BaseAgent._measure_execution_time: int((time.time() - start_time) * 1000)
\* (seconds * 1000 truncated by int() is microseconds \div 1000)
measure_execution_time(start_time) ==
    (now - start_time) \div (UsPerSecond \div MsPerSecond)

\* the AgentResponse(success=True, ...) of each adapter
SuccessResponse(cls, shape, execution_time) ==
    AgentResponse(TRUE, ExtractResult(cls, shape), None, Some(execution_time),
                  Some([framework |-> FrameworkTag(cls)]),
                  Some([framework |-> FrameworkTag(cls), agents_used |-> AgentsUsed(cls)]))

\* variant: the failure response built without its execution time
ExceptResponse_Untimed(e, execution_time) ==
    AgentResponse(FALSE, None, Some(StrExc(e)), None, None, None)

\* variant: the error reports the exception's class instead of str(e)
ExceptResponse_ClassName(e, execution_time) ==
    AgentResponse(FALSE, None, Some(<<e.cls>>), Some(execution_time), None, None)

\* the AgentResponse of each adapter's `except Exception as e`
ExceptResponse(e, execution_time) ==
    AgentResponse(FALSE, None, Some(StrExc(e)), Some(execution_time), None, None)

\* responses a stub adapter's execute is set up to return (tests/test_agents.py)
StubResponses ==
    { AgentResponse(TRUE, Some(<<"Test", "response">>), None, Some(100), None,
                    Some([agent_type |-> "test_agent"])),
      AgentResponse(FALSE, None, Some(<<"Test", "error">>), Some(50), None,
                    Some([agent_type |-> "test_agent"])) }

(***************************************************************************)
(* AgentOrchestrator                                                       *)
(***************************************************************************)
\* variant: an empty agent_type_mapping
ResolveAlias_NoMapping(agent_type) == agent_type

\* variant: the mapping entered the wrong way round, {"ag2": "autogen"}
ResolveAlias_Reversed(agent_type) == IF agent_type = "ag2" THEN "autogen" ELSE agent_type

\* agent_type_mapping.get(agent_type, agent_type)
ResolveAlias(agent_type) == IF agent_type = "autogen" THEN "ag2" ELSE agent_type

\* variant: the message leaves the type name out
NotFoundResponse_Unnamed(agent_type) ==
    FailureResponse(<<"Agent", "type", "not", "found">>)

\* f"Agent type '{agent_type}' not found"
NotFoundResponse(agent_type) ==
    FailureResponse(<<"Agent", "type", "'", agent_type, "'", "not", "found">>)

\* variant: the message stops after "not available"
NoFallbackResponse_Short(agent_type) ==
    FailureResponse(<<"Agent", "'", agent_type, "'", "not", "available">>)

\* f"Agent '{agent_type}' not available and no fallback"
NoFallbackResponse(agent_type) ==
    FailureResponse(<<"Agent", "'", agent_type, "'", "not", "available", "and", "no", "fallback">>)

\* variant: the message without its prefix
ExecutionFailedResponse_Bare(e) ==
    FailureResponse(StrExc(e))

\* f"Agent execution failed: {str(e)}"
ExecutionFailedResponse(e) ==
    FailureResponse(<<"Agent", "execution", "failed:">> \o StrExc(e))

\* variant: the fallback's own availability is not checked
FallbackUsable_Registered == "mock" \in DOMAIN agents

\* self.agents.get("mock") followed by `not agent or not agent.available`
FallbackUsable == "mock" \in DOMAIN agents /\ agents["mock"].available

\* AgentOrchestrator._initialize_agents, for the availability each constructor ends with
InitializeAgents(avail) ==
    [k \in {"praisonai", "crewai", "ag2"} |->
        CASE k = "praisonai" -> Adapter("praisonai", "PraisonAIAgent", avail[k])
          [] k = "crewai"    -> Adapter("crewai", "CrewAIAgent", avail[k])
          [] k = "ag2"       -> Adapter("ag2", "AG2Agent", avail[k])]

\* the agent_classes list of _initialize_agents, in its order
agent_classes ==
    << [key |-> "praisonai", cls |-> "PraisonAIAgent"],
       [key |-> "crewai", cls |-> "CrewAIAgent"],
       [key |-> "ag2", cls |-> "AG2Agent"] >>

\* what an import statement can do: bind the names, raise ImportError
\* (ModuleNotFoundError included), or raise another Exception from the
\* imported module's top-level code
ImportOutcomes == {"ok", "ImportError", "Exception"}

\* variant: every adapter given a second import path
HasFallbackImport_All(cls) == cls \in FrameworkClasses

\* the inner try/except ImportError with an alternative import:
\* PraisonAIAgent.__init__ and AG2Agent.__init__ have one, CrewAIAgent.__init__ none
HasFallbackImport(cls) == cls \in {"PraisonAIAgent", "AG2Agent"}

\* the alternative import runs when the inner handler catches the primary's ImportError
FallbackTried(cls, primary) == HasFallbackImport(cls) /\ primary = "ImportError"

\* what leaves the import section of __init__: "ok" or the exception raised
ImportSection(cls, primary, fallback) ==
    IF FallbackTried(cls, primary) THEN fallback ELSE primary

\* variant: the outer try left with its `except ImportError` clause only
OuterCatches_ImportErrorOnly(exc) == exc = "ImportError"

\* the outer `except ImportError` and `except Exception` clauses of __init__
OuterCatches(exc) == exc \in {"ImportError", "Exception"}

\* an adapter's __init__: BaseAgent.__init__ sets available=False; the
\* assignment available=True is reached when the import section raised nothing
Construct(key, cls, primary, fallback) ==
    LET out == ImportSection(cls, primary, fallback)
    IN  [key |-> key, cls |-> cls, primary |-> primary,
         fallback |-> IF FallbackTried(cls, primary) THEN fallback ELSE "untried",
         raised |-> IF out = "ok" \/ OuterCatches(out) THEN "none" ELSE out,
         available |-> out = "ok"]

\* a registry extended with one stub adapter under `key`
WithStub(reg, key, available) ==
    [k \in DOMAIN reg \cup {key} |->
        IF k = key THEN Adapter(key, StubClass, available) ELSE reg[k]]

\* registries the orchestrator can hold: the default initialisation for every
\* availability outcome, the same with an adapter registered under "mock",
\* and the test fixture's single-stub registry
Registries ==
    LET defaults == { InitializeAgents(a) : a \in [{"praisonai", "crewai", "ag2"} -> BOOLEAN] }
    IN  defaults
        \cup { WithStub(r, "mock", b) : r \in defaults, b \in BOOLEAN }
        \cup { WithStub(<<>>, "test_agent", TRUE) }

\* iteration order of self.agents.items(): the order the keys were inserted in
KeyOrder == <<"praisonai", "crewai", "ag2", "mock", "test_agent">>

\* variant: the availability filter left out
get_available_agents_Unfiltered ==
    LET registered(k) == k \in DOMAIN agents
    IN  SelectSeq(KeyOrder, registered)

\* AgentOrchestrator.get_available_agents
get_available_agents ==
    LET listed(k) == k \in DOMAIN agents /\ agents[k].available
    IN  SelectSeq(KeyOrder, listed)

\* AgentOrchestrator._get_agent_description
get_agent_description(agent_type) ==
    CASE agent_type = "praisonai" ->
            <<"Multi-agent", "orchestration", "with", "structured", "outputs">>
      [] agent_type = "crewai" ->
            <<"Collaborative", "AI", "agents", "for", "complex", "tasks">>
      [] agent_type = "ag2" ->
            <<"AutoGen", "conversation-based", "multi-agent", "system">>
      [] OTHER -> <<"Unknown", "agent", "type">>

\* a dict returned by get_agent_info: an absent key is None
InfoDict(name, available, type, description, error) ==
    [name |-> name, available |-> available, type |-> type,
     description |-> description, error |-> error]

\* variant: the "type" entry filled with the adapter's name
get_agent_info_TypeFromName(agent_type) ==
    IF agent_type \notin DOMAIN agents
    THEN InfoDict(None, None, None, None,
                  Some(<<"Agent", "type", "'", agent_type, "'", "not", "found">>))
    ELSE InfoDict(Some(agents[agent_type].name), Some(agents[agent_type].available),
                  Some(agents[agent_type].cls), Some(get_agent_description(agent_type)),
                  None)

\* AgentOrchestrator.get_agent_info
get_agent_info(agent_type) ==
    IF agent_type \notin DOMAIN agents
    THEN InfoDict(None, None, None, None,
                  Some(<<"Agent", "type", "'", agent_type, "'", "not", "found">>))
    ELSE InfoDict(Some(agents[agent_type].name), Some(agents[agent_type].available),
                  Some(agent_type), Some(get_agent_description(agent_type)),
                  None)

\* Python binding the positional arguments of a get_agent_info call to
\* (self, agent_type): one argument binds, any other count raises TypeError
\* before the body runs
BindAgentInfo(args) ==
    IF Len(args) = 1
    THEN [raised |-> NoExc, value |-> Some(get_agent_info(args[1]))]
    ELSE [raised |-> [cls |-> "TypeError",
                      args |-> << IF Len(args) = 0
                                  THEN <<"AgentOrchestrator.get_agent_info()", "missing",
                                         "1", "required", "positional", "argument:",
                                         "'agent_type'">>
                                  ELSE <<"AgentOrchestrator.get_agent_info()", "takes",
                                         "2", "positional", "arguments", "but", "more",
                                         "were", "given">> >>],
          value |-> None]

\* bearer tokens a request can carry: verified with a "sub" claim, expired,
\* rejected by jwt.decode, verified but without "sub", or not verifiable
\* because fetching the signing key failed
Tokens == {"valid", "expired", "invalid", "no_sub", "jwks_error"}

HTTP_200_OK == 200
HTTP_401_UNAUTHORIZED == 401
HTTP_500_INTERNAL_SERVER_ERROR == 500

\* an HTTP response: status, the detail of an HTTPException, the body of a success
HttpResponse(status, detail, body) == [status |-> status, detail |-> detail, body |-> body]

\* verify_clerk_jwt: the ClerkUser, or the HTTPException raised; the
\* HTTPException for a missing "sub" is raised inside the try and replaced by
\* the `except Exception` handler's
verify_clerk_jwt(token) ==
    CASE token = "valid" ->
            [user |-> Some("user_1"), raised |-> None]
      [] token = "expired" ->
            [user |-> None,
             raised |-> Some(HttpResponse(HTTP_401_UNAUTHORIZED,
                                          Some(<<"Token", "has", "expired">>), None))]
      [] token = "invalid" ->
            [user |-> None,
             raised |-> Some(HttpResponse(HTTP_401_UNAUTHORIZED,
                                          Some(<<"Invalid", "token">>), None))]
      [] OTHER ->
            [user |-> None,
             raised |-> Some(HttpResponse(HTTP_401_UNAUTHORIZED,
                                          Some(<<"Authentication", "failed">>), None))]

\* the body of get_agents for an authenticated user: the two orchestrator
\* calls as the handler writes them, AgentInfoResponse on success, and the
\* `except Exception` handler's HTTPException otherwise
get_agents_body ==
    LET available_agents == get_available_agents
        agent_details == BindAgentInfo(<<>>)
    IN  IF agent_details.raised = NoExc
        THEN HttpResponse(HTTP_200_OK, None,
                          Some([available_agents |-> available_agents,
                                agent_details |-> agent_details.value[1]]))
        ELSE HttpResponse(HTTP_500_INTERNAL_SERVER_ERROR,
                          Some(<<"Failed", "to", "get", "agent", "info:">>
                               \o StrExc(agent_details.raised)),
                          None)

\* agent_type values callers pass
AgentTypes == {"praisonai", "crewai", "ag2", "autogen", "mock", "test_agent", "nonexistent_agent"}

Tasks == { <<"t">>, <<"hello">> }

Contexts == { None, Some("ctx") }

(***************************************************************************)
(* State                                                                   *)
(*  agents : AgentOrchestrator.agents, key -> adapter                      *)
(*  now    : time.time(), microseconds                                     *)
(*  call   : the invocation in progress on the event-loop thread; execute  *)
(*           never awaits, so one invocation runs to its return before     *)
(*           the next one starts                                           *)
(*  worker : the ThreadPoolExecutor thread running the framework call      *)
(*  ready  : execute_task coroutines scheduled on the event loop and not   *)
(*           yet started                                                   *)
(*  store  : the database tables agent_sessions, agent_messages and        *)
(*           agent_executions                                              *)
(*  metrics: the agent_executions_total counter, per (agent_type, status)  *)
(*  req    : the HTTP request being handled by the API layer               *)
(***************************************************************************)
NoOutcome == [raised |-> FALSE, shape |-> "none", exc |-> NoExc]

IdleWorker == [state |-> "none", outcome |-> NoOutcome]

IdleCall ==
    [pc |-> "idle",
     entry |-> "none",            \* "execute_task", a direct adapter "execute",
                                  \* "get_available_agents", "get_agent_info"
                                  \* "__init__" or "get_agents"
     requested |-> "",            \* agent_type as passed by the caller
     agent_type |-> "",           \* agent_type after alias resolution
     task |-> EmptyText, context |-> None,
     adapter |-> "",              \* key of the adapter whose execute runs
     recv_task |-> None, recv_context |-> None,   \* arguments execute received
     invoked |-> <<>>,            \* keys of the adapters whose execute was called
     start_time |-> 0, wait_start |-> 0,
     built |-> 0,                 \* framework objects built
     workers_started |-> 0,
     shape |-> "none",            \* value returned by future.result
     exc |-> NoExc,               \* exception raised inside execute's try block
     exc_step |-> "none",         \* "build", "worker", "timeout" or "extract"
     adapter_response |-> None,   \* what the adapter's execute returned
     adapter_raised |-> NoExc,    \* exception that left the adapter's execute
     response |-> None,           \* what the caller got back
     raised |-> NoExc,            \* exception that reached the caller
     available_agents |-> None,   \* list returned by get_available_agents
     agent_info |-> None,         \* dict returned by get_agent_info
     imports |-> <<>>,            \* constructor runs of _initialize_agents so far
     token |-> "",                \* bearer token of an HTTP request
     http |-> None]               \* HTTP response sent

\* users of the service: the one verify_clerk_jwt authenticates, and another
RequestUser == "user_1"
OtherUser == "user_2"

\* a row of agent_sessions (id, user_id)
AgentSession(id, user_id) == [id |-> id, user_id |-> user_id]

\* a row of agent_messages
AgentMessage(id, session_id, user_id, message_type, content) ==
    [id |-> id, session_id |-> session_id, user_id |-> user_id,
     message_type |-> message_type, content |-> content]

\* a row of agent_executions
AgentExecution(id, session_id, user_id, agent_type, status) ==
    [id |-> id, session_id |-> session_id, user_id |-> user_id,
     agent_type |-> agent_type, status |-> status]

\* the database before the request: each user has created one session
InitialStore ==
    [sessions |-> { AgentSession("s_own", RequestUser), AgentSession("s_other", OtherUser) },
     messages |-> {},
     executions |-> {}]

\* label values of agent_executions_total
MetricStatuses == {"success", "failure", "error"}

\* the counter at process start
ZeroMetrics == [l \in AgentTypes \X MetricStatuses |-> 0]

\* no request is being handled
IdleRequest ==
    [pc |-> "none",
     endpoint |-> "none",         \* "answer" or "health"
     token |-> "",                \* bearer token of the request
     user |-> None,               \* ClerkUser.user_id once verified
     agent_type |-> "", task |-> EmptyText, context |-> None,
     supplied |-> None,           \* request.session_id
     session_id |-> None,         \* the handler's session_id
     message_id |-> None,         \* id of the saved assistant message
     steps |-> <<>>,              \* handler steps completed, in order
     exc |-> NoExc,               \* exception caught by `except Exception`
     http |-> None]               \* HTTP response sent

Init ==
    /\ agents \in Registries
    /\ now = 0
    /\ call = IdleCall
    /\ worker = IdleWorker
    /\ ready = <<>>
    /\ store = InitialStore
    /\ metrics = ZeroMetrics
    /\ req = IdleRequest

\* variant: the fallback adapter called without the caller's context
ExecuteTaskEntry_FallbackNoContext(agent_type, task, context) ==
    LET resolved == ResolveAlias(agent_type)
        base == [IdleCall EXCEPT !.entry = "execute_task", !.requested = agent_type,
                                 !.agent_type = resolved,
                                 !.task = task, !.context = context]
        dispatch(key, ctx) == [base EXCEPT !.pc = "adapter_entry", !.adapter = key,
                                           !.recv_task = Some(task),
                                           !.recv_context = Some(ctx),
                                           !.invoked = Append(base.invoked, key)]
    IN  IF resolved \notin DOMAIN agents
        THEN [base EXCEPT !.pc = "returned",
                          !.response = Some(NotFoundResponse(resolved))]
        ELSE IF agents[resolved].available
        THEN dispatch(resolved, context)
        ELSE IF FallbackUsable
        THEN dispatch("mock", None)
        ELSE [base EXCEPT !.pc = "returned",
                          !.response = Some(NoFallbackResponse(resolved))]

\* variant: without a usable fallback the unavailable adapter is called anyway
ExecuteTaskEntry_CallUnavailable(agent_type, task, context) ==
    LET resolved == ResolveAlias(agent_type)
        base == [IdleCall EXCEPT !.entry = "execute_task", !.requested = agent_type,
                                 !.agent_type = resolved,
                                 !.task = task, !.context = context]
        dispatch(key) == [base EXCEPT !.pc = "adapter_entry", !.adapter = key,
                                      !.recv_task = Some(task),
                                      !.recv_context = Some(context),
                                      !.invoked = Append(base.invoked, key)]
    IN  IF resolved \notin DOMAIN agents
        THEN [base EXCEPT !.pc = "returned",
                          !.response = Some(NotFoundResponse(resolved))]
        ELSE IF agents[resolved].available
        THEN dispatch(resolved)
        ELSE IF FallbackUsable
        THEN dispatch("mock")
        ELSE dispatch(resolved)

(***************************************************************************)
(* AgentOrchestrator.execute_task, up to the dispatch (lines 401-422):     *)
(* the state of the call once alias resolution, lookup and the             *)
(* availability / fallback check are done                                  *)
(***************************************************************************)
ExecuteTaskEntry(agent_type, task, context) ==
    LET resolved == ResolveAlias(agent_type)
        base == [IdleCall EXCEPT !.entry = "execute_task", !.requested = agent_type,
                                 !.agent_type = resolved,
                                 !.task = task, !.context = context]
        dispatch(key) == [base EXCEPT !.pc = "adapter_entry", !.adapter = key,
                                      !.recv_task = Some(task),
                                      !.recv_context = Some(context),
                                      !.invoked = Append(base.invoked, key)]
    IN  IF resolved \notin DOMAIN agents
        THEN [base EXCEPT !.pc = "returned",
                          !.response = Some(NotFoundResponse(resolved))]
        ELSE IF agents[resolved].available
        THEN dispatch(resolved)
        ELSE IF FallbackUsable
        THEN dispatch("mock")
        ELSE [base EXCEPT !.pc = "returned",
                          !.response = Some(NoFallbackResponse(resolved))]

ExecuteTask(agent_type, task, context) ==
    /\ call.pc = "idle"
    /\ call' = ExecuteTaskEntry(agent_type, task, context)
    /\ UNCHANGED <<agents, now, worker, apiVars>>

(***************************************************************************)
(* A direct call of an adapter's execute (tests/test_framework_integration) *)
(***************************************************************************)
DirectExecute(key, task, context) ==
    /\ call.pc = "idle"
    /\ key \in DOMAIN agents
    /\ call' = [call EXCEPT !.pc = "adapter_entry", !.entry = "execute",
                            !.requested = key, !.agent_type = key,
                            !.task = task, !.context = context,
                            !.adapter = key,
                            !.recv_task = Some(task), !.recv_context = Some(context),
                            !.invoked = Append(call.invoked, key)]
    /\ UNCHANGED <<agents, now, worker, apiVars>>

\* variant: execute without its availability check
AdapterBegin_NoCheck ==
    /\ call.pc = "adapter_entry"
    /\ agents[call.adapter].cls \in FrameworkClasses
    /\ call' = [call EXCEPT !.pc = "build", !.start_time = now]
    /\ UNCHANGED <<agents, now, worker, apiVars>>

(***************************************************************************)
(* Adapter execute: availability check and start_time (lines 92-98)        *)
(***************************************************************************)
AdapterBegin ==
    /\ call.pc = "adapter_entry"
    /\ agents[call.adapter].cls \in FrameworkClasses
    /\ call' =
         IF ~agents[call.adapter].available
         THEN [call EXCEPT !.pc = "adapter_done",
                           !.adapter_response =
                               Some(NotAvailableResponse(agents[call.adapter].cls))]
         ELSE [call EXCEPT !.pc = "build", !.start_time = now]
    /\ UNCHANGED <<agents, now, worker, apiVars>>

(***************************************************************************)
(* Adapter execute: build the framework objects and submit the framework   *)
(* call to a ThreadPoolExecutor worker (lines 100-129)                     *)
(***************************************************************************)
AdapterBuildAndSubmit ==
    /\ call.pc = "build"
    /\ \/ /\ call' = [call EXCEPT !.pc = "wait", !.built = call.built + 1,
                                  !.workers_started = call.workers_started + 1,
                                  !.wait_start = now]
          /\ worker' = [state |-> "running", outcome |-> NoOutcome]
       \/ /\ \E e \in Exceptions :
                call' = [call EXCEPT !.pc = "except", !.exc = e, !.exc_step = "build"]
          /\ UNCHANGED worker
    /\ UNCHANGED <<agents, now, apiVars>>

(***************************************************************************)
(* The framework call finishing in its worker thread                       *)
(***************************************************************************)
WorkerFinish ==
    /\ worker.state = "running"
    /\ \/ \E shape \in ResultShapes(agents[call.adapter].cls) :
            worker' = [state |-> "done",
                       outcome |-> [raised |-> FALSE, shape |-> shape, exc |-> NoExc]]
       \/ \E e \in Exceptions :
            worker' = [state |-> "done",
                       outcome |-> [raised |-> TRUE, shape |-> "none", exc |-> e]]
    /\ UNCHANGED <<agents, now, call, apiVars>>

(***************************************************************************)
(* future.result(timeout=60) returning the worker's value or re-raising    *)
(* the worker's exception                                                  *)
(***************************************************************************)
FutureResult ==
    /\ call.pc = "wait"
    /\ worker.state = "done"
    /\ call' =
         IF worker.outcome.raised
         THEN [call EXCEPT !.pc = "exit_pool", !.exc = worker.outcome.exc,
                           !.exc_step = "worker"]
         ELSE [call EXCEPT !.pc = "exit_pool", !.shape = worker.outcome.shape]
    /\ UNCHANGED <<agents, now, worker, apiVars>>

(***************************************************************************)
(* future.result(timeout=60) raising TimeoutError after 60 seconds         *)
(***************************************************************************)
FutureTimeout ==
    /\ call.pc = "wait"
    /\ worker.state = "running"
    /\ now - call.wait_start >= TimeoutUs
    /\ call' = [call EXCEPT !.pc = "exit_pool", !.exc = TimeoutError,
                            !.exc_step = "timeout"]
    /\ UNCHANGED <<agents, now, worker, apiVars>>

(***************************************************************************)
(* Leaving `with ThreadPoolExecutor() as executor`: __exit__ calls         *)
(* shutdown(wait=True), which joins the worker thread                      *)
(***************************************************************************)
ExitPool ==
    /\ call.pc = "exit_pool"
    /\ worker.state = "done"
    /\ call' = [call EXCEPT !.pc = IF call.exc = NoExc THEN "extract" ELSE "except"]
    /\ worker' = IdleWorker
    /\ UNCHANGED <<agents, now, apiVars>>

(***************************************************************************)
(* Adapter execute: measure the time, extract the result, return success   *)
(***************************************************************************)
AdapterSucceed ==
    /\ call.pc = "extract"
    /\ call' =
         IF ExtractRaises(call.shape)
         THEN [call EXCEPT !.pc = "except", !.exc = ExtractError, !.exc_step = "extract"]
         ELSE [call EXCEPT !.pc = "adapter_done",
                           !.adapter_response =
                               Some(SuccessResponse(agents[call.adapter].cls, call.shape,
                                                    measure_execution_time(call.start_time)))]
    /\ UNCHANGED <<agents, now, worker, apiVars>>

(***************************************************************************)
(* Adapter execute: `except Exception as e`                                *)
(***************************************************************************)
AdapterExcept ==
    /\ call.pc = "except"
    /\ call' = [call EXCEPT !.pc = "adapter_done",
                            !.adapter_response =
                                Some(ExceptResponse(call.exc,
                                                    measure_execution_time(call.start_time)))]
    /\ UNCHANGED <<agents, now, worker, apiVars>>

(***************************************************************************)
(* A stub adapter's execute: returns its configured response or raises     *)
(***************************************************************************)
StubExecute ==
    /\ call.pc = "adapter_entry"
    /\ agents[call.adapter].cls = StubClass
    /\ \/ \E r \in StubResponses :
            call' = [call EXCEPT !.pc = "adapter_done", !.adapter_response = Some(r)]
       \/ \E e \in Exceptions :
            call' = [call EXCEPT !.pc = "adapter_done", !.adapter_raised = e]
    /\ UNCHANGED <<agents, now, worker, apiVars>>

\* variant: the adapter's response rebuilt without its metadata
OrchestratorReturn_Rewrap ==
    /\ call.pc = "adapter_done"
    /\ call' =
         IF call.adapter_raised = NoExc
         THEN [call EXCEPT !.pc = "returned",
                           !.response =
                               Some([call.adapter_response[1] EXCEPT !.metadata = None])]
         ELSE IF call.entry = "execute_task"
         THEN [call EXCEPT !.pc = "returned",
                           !.response = Some(ExecutionFailedResponse(call.adapter_raised))]
         ELSE [call EXCEPT !.pc = "returned", !.raised = call.adapter_raised]
    /\ UNCHANGED <<agents, now, worker, apiVars>>

(***************************************************************************)
(* execute_task's `return await agent.execute(...)` and its                *)
(* `except Exception as e` (lines 424-431); a direct caller of execute     *)
(* gets the adapter's response or exception as it is                       *)
(***************************************************************************)
OrchestratorReturn ==
    /\ call.pc = "adapter_done"
    /\ call' =
         IF call.adapter_raised = NoExc
         THEN [call EXCEPT !.pc = "returned", !.response = call.adapter_response]
         ELSE IF call.entry = "execute_task"
         THEN [call EXCEPT !.pc = "returned",
                           !.response = Some(ExecutionFailedResponse(call.adapter_raised))]
         ELSE [call EXCEPT !.pc = "returned", !.raised = call.adapter_raised]
    /\ UNCHANGED <<agents, now, worker, apiVars>>

(***************************************************************************)
(* The caller takes the response; the event loop is free for the next call *)
(***************************************************************************)
CallerContinue ==
    /\ call.pc = "returned"
    /\ call' = IdleCall
    /\ UNCHANGED <<agents, now, worker, apiVars>>

(***************************************************************************)
(* AgentOrchestrator.get_available_agents                                  *)
(***************************************************************************)
GetAvailableAgents ==
    /\ call.pc = "idle"
    /\ call' = [IdleCall EXCEPT !.pc = "returned", !.entry = "get_available_agents",
                                !.available_agents = Some(get_available_agents)]
    /\ UNCHANGED <<agents, now, worker, apiVars>>

\* variant: a lookup that inserts the key it did not find
GetAgentInfo_Inserting(agent_type) ==
    /\ call.pc = "idle"
    /\ call' = [IdleCall EXCEPT !.pc = "returned", !.entry = "get_agent_info",
                                !.requested = agent_type,
                                !.agent_info = Some(get_agent_info(agent_type))]
    /\ agents' = IF agent_type \in DOMAIN agents THEN agents
                 ELSE WithStub(agents, agent_type, FALSE)
    /\ UNCHANGED <<now, worker, apiVars>>

(***************************************************************************)
(* AgentOrchestrator.get_agent_info                                        *)
(***************************************************************************)
GetAgentInfo(agent_type) ==
    /\ call.pc = "idle"
    /\ call' = [IdleCall EXCEPT !.pc = "returned", !.entry = "get_agent_info",
                                !.requested = agent_type,
                                !.agent_info = Some(get_agent_info(agent_type))]
    /\ UNCHANGED <<agents, now, worker, apiVars>>

(***************************************************************************)
(* GET /v1/agents: the get_current_user dependency, then get_agents        *)
(***************************************************************************)
GetAgents(token) ==
    /\ call.pc = "idle"
    /\ LET auth == verify_clerk_jwt(token)
       IN  call' = [IdleCall EXCEPT !.pc = "returned", !.entry = "get_agents",
                                    !.token = token,
                                    !.http = IF auth.raised # None
                                             THEN auth.raised
                                             ELSE Some(get_agents_body)]
    /\ UNCHANGED <<agents, now, worker, apiVars>>

(***************************************************************************)
(* time.time() advancing; the program reads the clock only between an      *)
(* adapter's start_time and its return, so time passing elsewhere is not   *)
(* observable and is left out                                              *)
(***************************************************************************)
Tick ==
    /\ call.pc \in {"build", "wait", "exit_pool", "extract", "except"}
    /\ \E d \in {TickUs, TimeoutUs} :
          /\ now + d <= MaxNow
          /\ (now + d) % TimeoutUs <= MaxNowSlack
          /\ now' = now + d
    /\ UNCHANGED <<agents, call, worker, apiVars>>

Next ==
    \/ \E a \in AgentTypes, t \in Tasks, c \in Contexts : ExecuteTask(a, t, c)
    \/ \E k \in AgentTypes, t \in Tasks, c \in Contexts : DirectExecute(k, t, c)
    \/ AdapterBegin
    \/ AdapterBuildAndSubmit
    \/ WorkerFinish
    \/ FutureResult
    \/ FutureTimeout
    \/ ExitPool
    \/ AdapterSucceed
    \/ AdapterExcept
    \/ StubExecute
    \/ OrchestratorReturn
    \/ CallerContinue
    \/ GetAvailableAgents
    \/ \E k \in AgentTypes : GetAgentInfo(k)
    \/ \E tk \in Tokens : GetAgents(tk)
    \/ Tick

Spec == Init /\ [][Next]_vars

TypeOK ==
    /\ agents \in Registries
    /\ now \in 0..MaxNow
    /\ call.pc \in {"idle", "adapter_entry", "build", "wait", "exit_pool", "extract",
                    "except", "adapter_done", "returned"}
    /\ worker.state \in {"none", "running", "done"}

(***************************************************************************)
(* AgentOrchestrator.__init__: module load, `orchestrator =                *)
(* AgentOrchestrator()`, starts from an empty registry.                    *)
(***************************************************************************)
LoadInit ==
    /\ agents = <<>>
    /\ now = 0
    /\ call = [IdleCall EXCEPT !.pc = "init", !.entry = "__init__"]
    /\ worker = IdleWorker
    /\ ready = <<>>
    /\ store = InitialStore
    /\ metrics = ZeroMetrics
    /\ req = IdleRequest

\* one iteration of the loop of _initialize_agents: construct the adapter,
\* register it under its key unless the constructor raised
InitializeAgent(primary, fallback) ==
    /\ call.pc = "init"
    /\ Len(call.imports) < Len(agent_classes)
    /\ LET entry == agent_classes[Len(call.imports) + 1]
           made == Construct(entry.key, entry.cls, primary, fallback)
       IN  /\ call' = [call EXCEPT !.imports = Append(@, made)]
           /\ agents' = IF made.raised = "none"
                        THEN [k \in DOMAIN agents \cup {entry.key} |->
                                IF k = entry.key
                                THEN Adapter(entry.key, entry.cls, made.available)
                                ELSE agents[k]]
                        ELSE agents
    /\ UNCHANGED <<now, worker, apiVars>>

\* the loop is over and __init__ returns; the orchestrator takes calls
InitializeDone ==
    /\ call.pc = "init"
    /\ Len(call.imports) = Len(agent_classes)
    /\ call' = IdleCall
    /\ UNCHANGED <<agents, now, worker, apiVars>>

\* the orchestrator as the application builds it; no test double is installed
LoadNext ==
    \/ \E p \in ImportOutcomes, f \in ImportOutcomes : InitializeAgent(p, f)
    \/ InitializeDone
    \/ \E a \in AgentTypes, t \in Tasks, c \in Contexts : ExecuteTask(a, t, c)
    \/ \E k \in AgentTypes, t \in Tasks, c \in Contexts : DirectExecute(k, t, c)
    \/ AdapterBegin
    \/ AdapterBuildAndSubmit
    \/ WorkerFinish
    \/ FutureResult
    \/ FutureTimeout
    \/ ExitPool
    \/ AdapterSucceed
    \/ AdapterExcept
    \/ OrchestratorReturn
    \/ CallerContinue
    \/ GetAvailableAgents
    \/ \E k \in AgentTypes : GetAgentInfo(k)
    \/ \E tk \in Tokens : GetAgents(tk)
    \/ Tick

LoadSpec == LoadInit /\ [][LoadNext]_vars

(***************************************************************************)
(* Concurrent execute_task calls on the event loop.  A coroutine runs on   *)
(* the loop's thread until it awaits something that suspends it.           *)
(* execute_task awaits only agent.execute, and execute awaits nothing:     *)
(* it waits for its worker in the blocking future.result(timeout=60).      *)
(***************************************************************************)
\* registries of the concurrent runs: every framework available, and
\* PraisonAI unavailable with an available adapter under "mock"
ConcRegistries ==
    { InitializeAgents([k \in {"praisonai", "crewai", "ag2"} |-> TRUE]),
      WithStub(InitializeAgents([k \in {"praisonai", "crewai", "ag2"} |-> k # "praisonai"]),
               "mock", TRUE) }

\* the execute_task calls the callers make
ConcRequests ==
    { [agent_type |-> a, task |-> t, context |-> Some("ctx")] :
        a \in {"praisonai", "ag2"}, t \in Tasks }

ConcInit ==
    /\ agents \in ConcRegistries
    /\ now = 0
    /\ call = IdleCall
    /\ worker = IdleWorker
    /\ ready = <<>>
    /\ store = InitialStore
    /\ metrics = ZeroMetrics
    /\ req = IdleRequest

\* a caller schedules an execute_task call (asyncio.create_task, gather, or a
\* request handler reaching its call) while the loop may be busy
Schedule(r) ==
    /\ Len(ready) < MaxReady
    /\ ready' = Append(ready, r)
    /\ UNCHANGED <<agents, now, call, worker, store, metrics, req>>

\* variant: the loop starts the next call while the running one waits for its worker
RunReady_Preempting ==
    /\ call.pc \in {"idle", "wait"}
    /\ ready # <<>>
    /\ call' = ExecuteTaskEntry(Head(ready).agent_type, Head(ready).task, Head(ready).context)
    /\ ready' = Tail(ready)
    /\ UNCHANGED <<agents, now, worker, store, metrics, req>>

\* the loop's thread is free and starts the next scheduled call
RunReady ==
    /\ call.pc = "idle"
    /\ ready # <<>>
    /\ call' = ExecuteTaskEntry(Head(ready).agent_type, Head(ready).task, Head(ready).context)
    /\ ready' = Tail(ready)
    /\ UNCHANGED <<agents, now, worker, store, metrics, req>>

ConcNext ==
    \/ \E r \in ConcRequests : Schedule(r)
    \/ RunReady
    \/ AdapterBegin
    \/ AdapterBuildAndSubmit
    \/ WorkerFinish
    \/ FutureResult
    \/ FutureTimeout
    \/ ExitPool
    \/ AdapterSucceed
    \/ AdapterExcept
    \/ StubExecute
    \/ OrchestratorReturn
    \/ CallerContinue
    \/ Tick

ConcSpec == ConcInit /\ [][ConcNext]_vars

(***************************************************************************)
(* The API layer: POST /v1/answer, GET /v1/agents, GET /v1/health          *)
(***************************************************************************)
\* a database operation failing: the engine is down or commit() raises
DbError == [cls |-> "OperationalError", args |-> << <<"database", "unavailable">> >>]

\* Counter.inc(amount) evaluates `amount < 0`, which raises TypeError for a
\* str; the values the adapters put in token_usage are their framework tags
IncRaises(amount) == amount \in {"praisonai", "crewai", "ag2"}

IncTypeError ==
    [cls |-> "TypeError",
     args |-> << <<"'<'", "not", "supported", "between", "instances", "of",
                   "'str'", "and", "'int'">> >>]

\* MetricsCollector.record_agent_execution: agent_executions_total is
\* incremented first; then, for a non-empty token_usage, each of its values is
\* passed to agent_token_usage_total's inc
record_agent_execution(m, agent_type, status, token_usage) ==
    LET counted == [m EXCEPT ![<<agent_type, status>>] = @ + 1]
        truthy == token_usage # None /\ DOMAIN token_usage[1] # {}
    IN  [metrics |-> counted,
         raised |-> IF truthy /\ \E k \in DOMAIN token_usage[1] : IncRaises(token_usage[1][k])
                    THEN IncTypeError
                    ELSE NoExc]

\* `agent_response.result or agent_response.error or "No response"`
AssistantContent(r) ==
    IF r.result # None /\ r.result[1] # EmptyText THEN r.result[1]
    ELSE IF r.error # None /\ r.error[1] # EmptyText THEN r.error[1]
    ELSE <<"No", "response">>

\* AgentResponseModel(...) as the handler fills it
Envelope(r, session_id, message_id, agent_type) ==
    [success |-> r.success, result |-> r.result, error |-> r.error,
     execution_time_ms |-> r.execution_time_ms,
     session_id |-> session_id, message_id |-> message_id,
     agent_type |-> agent_type, metadata |-> r.metadata]

\* request.session_id values: absent, the user's own session, another
\* user's session, an id no session has
SuppliedSessions == { None, Some("s_own"), Some("s_other"), Some("s_missing") }

ApiInit ==
    /\ agents \in Registries
    /\ now = 0
    /\ call = IdleCall
    /\ worker = IdleWorker
    /\ ready = <<>>
    /\ store = InitialStore
    /\ metrics = ZeroMetrics
    /\ req = IdleRequest

\* variant: the handler entered without the get_current_user dependency
AnswerBegin_NoAuth(token, agent_type, supplied) ==
    /\ req.pc = "none"
    /\ call.pc = "idle"
    /\ req' = [IdleRequest EXCEPT !.pc = "session", !.endpoint = "answer",
                                  !.token = token, !.user = Some(RequestUser),
                                  !.agent_type = agent_type, !.task = <<"hello">>,
                                  !.context = Some("ctx"), !.supplied = supplied]
    /\ UNCHANGED <<agents, now, call, worker, ready, store, metrics>>

\* POST /v1/answer arrives: get_current_user verifies the token, then the
\* handler is entered
AnswerBegin(token, agent_type, supplied) ==
    /\ req.pc = "none"
    /\ call.pc = "idle"
    /\ LET auth == verify_clerk_jwt(token)
       IN  req' = IF auth.raised # None
                  THEN [IdleRequest EXCEPT !.pc = "done", !.endpoint = "answer",
                                           !.token = token, !.http = auth.raised]
                  ELSE [IdleRequest EXCEPT !.pc = "session", !.endpoint = "answer",
                                           !.token = token, !.user = auth.user,
                                           !.agent_type = agent_type, !.task = <<"hello">>,
                                           !.context = Some("ctx"), !.supplied = supplied]
    /\ UNCHANGED <<agents, now, call, worker, ready, store, metrics>>

\* variant: a new session created whether or not the request names one
AnswerSession_AlwaysCreate ==
    /\ req.pc = "session"
    /\ \/ /\ store' = [store EXCEPT !.sessions = @ \cup {AgentSession("s_new", req.user[1])}]
          /\ req' = [req EXCEPT !.pc = "save_user", !.session_id = Some("s_new"),
                                !.steps = Append(@, "session_created")]
       \/ /\ req' = [req EXCEPT !.pc = "except", !.exc = DbError]
          /\ UNCHANGED store
    /\ UNCHANGED <<agents, now, call, worker, ready, metrics>>

\* `if request.session_id:` reuse it, else `await db_manager.create_session`
AnswerSession ==
    /\ req.pc = "session"
    /\ IF req.supplied # None
       THEN /\ req' = [req EXCEPT !.pc = "save_user", !.session_id = req.supplied,
                                  !.steps = Append(@, "session_reused")]
            /\ UNCHANGED store
       ELSE \/ /\ store' = [store EXCEPT
                               !.sessions = @ \cup {AgentSession("s_new", req.user[1])}]
               /\ req' = [req EXCEPT !.pc = "save_user", !.session_id = Some("s_new"),
                                     !.steps = Append(@, "session_created")]
            \/ /\ req' = [req EXCEPT !.pc = "except", !.exc = DbError]
               /\ UNCHANGED store
    /\ UNCHANGED <<agents, now, call, worker, ready, metrics>>

\* `await db_manager.save_message(... message_type="user" ...)`
AnswerSaveUser ==
    /\ req.pc = "save_user"
    /\ \/ /\ store' = [store EXCEPT
                          !.messages = @ \cup {AgentMessage("m_user", req.session_id[1],
                                                            req.user[1], "user", req.task)}]
          /\ req' = [req EXCEPT !.pc = "execute", !.steps = Append(@, "user_message")]
       \/ /\ req' = [req EXCEPT !.pc = "except", !.exc = DbError]
          /\ UNCHANGED store
    /\ UNCHANGED <<agents, now, call, worker, ready, metrics>>

\* `await orchestrator.execute_task(task=..., agent_type=..., context=...)` entered
AnswerExecute ==
    /\ req.pc = "execute"
    /\ call.pc = "idle"
    /\ call' = ExecuteTaskEntry(req.agent_type, req.task, req.context)
    /\ req' = [req EXCEPT !.pc = "executing", !.steps = Append(@, "execute_task")]
    /\ UNCHANGED <<agents, now, worker, ready, store, metrics>>

\* execute_task has returned; metrics_collector.record_agent_execution(
\* status="success" if agent_response.success else "failure", ...)
AnswerMetrics ==
    /\ req.pc = "executing"
    /\ call.pc = "returned"
    /\ LET r == call.response[1]
           rec == record_agent_execution(metrics, req.agent_type,
                                         IF r.success THEN "success" ELSE "failure",
                                         r.token_usage)
       IN  /\ metrics' = rec.metrics
           /\ req' = IF rec.raised = NoExc
                     THEN [req EXCEPT !.pc = "save_assistant", !.steps = Append(@, "metric")]
                     ELSE [req EXCEPT !.pc = "except", !.exc = rec.raised]
    /\ UNCHANGED <<agents, now, call, worker, ready, store>>

\* `message_id = await db_manager.save_message(... message_type="assistant" ...)`
AnswerSaveAssistant ==
    /\ req.pc = "save_assistant"
    /\ \/ /\ store' = [store EXCEPT
                          !.messages = @ \cup {AgentMessage("m_assistant", req.session_id[1],
                                                            req.user[1], "assistant",
                                                            AssistantContent(call.response[1]))}]
          /\ req' = [req EXCEPT !.pc = "save_execution", !.message_id = Some("m_assistant"),
                                !.steps = Append(@, "assistant_message")]
       \/ /\ req' = [req EXCEPT !.pc = "except", !.exc = DbError]
          /\ UNCHANGED store
    /\ UNCHANGED <<agents, now, call, worker, ready, metrics>>

\* `await db_manager.save_execution(... status="completed" if success else "failed" ...)`
AnswerSaveExecution ==
    /\ req.pc = "save_execution"
    /\ \/ /\ store' = [store EXCEPT
                          !.executions = @ \cup
                              {AgentExecution("e_1", req.session_id[1], req.user[1],
                                              req.agent_type,
                                              IF call.response[1].success
                                              THEN "completed" ELSE "failed")}]
          /\ req' = [req EXCEPT !.pc = "return", !.steps = Append(@, "execution_record")]
       \/ /\ req' = [req EXCEPT !.pc = "except", !.exc = DbError]
          /\ UNCHANGED store
    /\ UNCHANGED <<agents, now, call, worker, ready, metrics>>

\* `return AgentResponseModel(...)`
AnswerReturn ==
    /\ req.pc = "return"
    /\ req' = [req EXCEPT !.pc = "done", !.steps = Append(@, "envelope"),
                          !.http = Some(HttpResponse(HTTP_200_OK, None,
                                        Some(Envelope(call.response[1], req.session_id[1],
                                                      req.message_id[1], req.agent_type))))]
    /\ UNCHANGED <<agents, now, call, worker, ready, store, metrics>>

\* the handler's `except Exception as e`: log, record status="error", HTTP 500
AnswerExcept ==
    /\ req.pc = "except"
    /\ metrics' = record_agent_execution(metrics, req.agent_type, "error", None).metrics
    /\ req' = [req EXCEPT !.pc = "done",
                          !.http = Some(HttpResponse(HTTP_500_INTERNAL_SERVER_ERROR,
                                        Some(<<"Agent", "execution", "failed:">>
                                             \o StrExc(req.exc)),
                                        None))]
    /\ UNCHANGED <<agents, now, call, worker, ready, store>>

\* GET /v1/health: no dependency, a constant body
HealthCheck(token) ==
    /\ req.pc = "none"
    /\ req' = [IdleRequest EXCEPT !.pc = "done", !.endpoint = "health", !.token = token,
                                  !.http = Some(HttpResponse(HTTP_200_OK, None,
                                        Some([status |-> "healthy",
                                              service |-> "fastapi-agent-backend",
                                              version |-> "1.0.0"])))]
    /\ UNCHANGED <<agents, now, call, worker, ready, store, metrics>>

\* GET /v1/agents, as one of the requests the API layer serves
AgentsRequest(token) ==
    /\ req.pc = "none"
    /\ GetAgents(token)

ApiNext ==
    \/ \E tk \in Tokens, a \in AgentTypes, sid \in SuppliedSessions : AnswerBegin(tk, a, sid)
    \/ AnswerSession
    \/ AnswerSaveUser
    \/ AnswerExecute
    \/ AdapterBegin
    \/ AdapterBuildAndSubmit
    \/ WorkerFinish
    \/ FutureResult
    \/ FutureTimeout
    \/ ExitPool
    \/ AdapterSucceed
    \/ AdapterExcept
    \/ StubExecute
    \/ OrchestratorReturn
    \/ Tick
    \/ AnswerMetrics
    \/ AnswerSaveAssistant
    \/ AnswerSaveExecution
    \/ AnswerReturn
    \/ AnswerExcept
    \/ \E tk \in Tokens \cup {""} : HealthCheck(tk)
    \/ \E tk \in Tokens : AgentsRequest(tk)

ApiSpec == ApiInit /\ [][ApiNext]_vars

(***************************************************************************)
(* Properties                                                              *)
(***************************************************************************)
\* the call in progress was made through execute_task and has returned
ExecuteTaskReturned == call.pc = "returned" /\ call.entry = "execute_task"

\* the alias-resolved name of the type the caller asked for
ResolvedName == IF call.requested = "autogen" THEN "ag2" ELSE call.requested

\* the returned response is a failure carrying an error text
FailedWithError ==
    /\ call.raised = NoExc
    /\ call.response # None
    /\ ~call.response[1].success
    /\ call.response[1].error # None

ErrorText == call.response[1].error[1]

\* C1: when the alias-resolved agent type is not a registered key, execute_task
\* returns success=false with an error containing "not found" and the resolved
\* type name, and no adapter's execute is invoked.
C1_UnknownTypeNotFound ==
    (ExecuteTaskReturned /\ ResolvedName \notin DOMAIN agents)
    => /\ FailedWithError
       /\ Contains(ErrorText, <<"not", "found">>)
       /\ Contains(ErrorText, <<ResolvedName>>)
       /\ call.invoked = <<>>

C1_Witness ==
    /\ ExecuteTaskReturned
    /\ call.requested = "nonexistent_agent"
    /\ "nonexistent_agent" \notin DOMAIN agents
    /\ FailedWithError
    /\ Contains(ErrorText, <<"nonexistent_agent">>)

\* C2: when the resolved type is registered but unavailable and no adapter is
\* registered under "mock" (or the mock adapter is unavailable too), execute_task
\* returns success=false with an error naming the type and stating that there
\* is no fallback, and no adapter's execute is invoked.
C2_UnavailableNoFallback ==
    (/\ ExecuteTaskReturned
     /\ ResolvedName \in DOMAIN agents
     /\ ~agents[ResolvedName].available
     /\ ("mock" \notin DOMAIN agents \/ ~agents["mock"].available))
    => /\ FailedWithError
       /\ Contains(ErrorText, <<ResolvedName>>)
       /\ Contains(ErrorText, <<"no", "fallback">>)
       /\ call.invoked = <<>>

C2_Witness ==
    /\ ExecuteTaskReturned
    /\ call.requested = "crewai"
    /\ "crewai" \in DOMAIN agents
    /\ ~agents["crewai"].available
    /\ "mock" \in DOMAIN agents
    /\ ~agents["mock"].available
    /\ FailedWithError
    /\ Contains(ErrorText, <<"no", "fallback">>)

\* C3: alias resolution maps "autogen" to "ag2" and leaves every other name
\* unchanged, so a call execute_task("autogen", task, context) enters exactly the
\* state a call execute_task("ag2", task, context) enters (same lookup result,
\* same adapter dispatched, same early response); only the recorded requested
\* name differs.
C3_AutogenSameAsAg2 ==
    [][(call.pc = "idle" /\ call'.entry = "execute_task")
       => /\ call'.agent_type = (IF call'.requested = "autogen" THEN "ag2"
                                 ELSE call'.requested)
          /\ (call'.requested = "autogen"
              => [call' EXCEPT !.requested = "ag2"]
                   = ExecuteTaskEntry("ag2", call'.task, call'.context))]_vars

C3_Witness ==
    /\ ExecuteTaskReturned
    /\ call.requested = "autogen"
    /\ call.adapter = "ag2"
    /\ call.invoked = <<"ag2">>
    /\ call.response # None
    /\ call.response[1].success

\* C4: execute_task("autogen", ...) while "ag2" is unavailable and there is no
\* usable mock fallback fails with an error text that contains "ag2" and does
\* not contain "autogen".
C4_ErrorNamesResolvedType ==
    (/\ ExecuteTaskReturned
     /\ call.requested = "autogen"
     /\ "ag2" \in DOMAIN agents
     /\ ~agents["ag2"].available
     /\ ("mock" \notin DOMAIN agents \/ ~agents["mock"].available))
    => /\ FailedWithError
       /\ Contains(ErrorText, <<"ag2">>)
       /\ ~Contains(ErrorText, <<"autogen">>)

C4_Witness ==
    /\ ExecuteTaskReturned
    /\ call.requested = "autogen"
    /\ "ag2" \in DOMAIN agents
    /\ ~agents["ag2"].available
    /\ "mock" \notin DOMAIN agents
    /\ FailedWithError
    /\ Contains(ErrorText, <<"ag2">>)

\* the registry _initialize_agents builds, with all three adapters unavailable
DefaultAllUnavailable ==
    /\ DOMAIN agents = {"praisonai", "crewai", "ag2"}
    /\ \A k \in DOMAIN agents : ~agents[k].available

HelloToPraisonAI ==
    /\ ExecuteTaskReturned
    /\ DefaultAllUnavailable
    /\ call.requested = "praisonai"
    /\ call.task = <<"hello">>

\* C5 (as stated): with the default registry and all three adapters unavailable,
\* execute_task("praisonai", "hello") fails with error exactly
\* "PraisonAI agent not available" and execution_time_ms None.
C5_Original ==
    HelloToPraisonAI
    => /\ FailedWithError
       /\ ErrorText = <<"PraisonAI", "agent", "not", "available">>
       /\ call.response[1].execution_time_ms = None

\* C5 (amended): with the default registry and all three adapters unavailable,
\* execute_task("praisonai", "hello") fails with error exactly
\* "Agent 'praisonai' not available and no fallback" and execution_time_ms None;
\* the adapter's execute is not called.
C5_Amended ==
    HelloToPraisonAI
    => /\ FailedWithError
       /\ ErrorText = <<"Agent", "'", "praisonai", "'", "not", "available",
                        "and", "no", "fallback">>
       /\ call.response[1].execution_time_ms = None
       /\ call.invoked = <<>>

C5_Witness ==
    /\ HelloToPraisonAI
    /\ FailedWithError
    /\ Contains(ErrorText, <<"no", "fallback">>)

\* a non-negative integer execution time
TimedNonNegative(r) == r.execution_time_ms # None /\ r.execution_time_ms[1] >= 0

\* C6 (as stated): execution_time_ms of an execute_task response is None only
\* when the call failed on an unregistered type; on every other path it is a
\* non-negative integer.
C6_Original ==
    ExecuteTaskReturned
    => /\ call.response # None
       /\ (call.response[1].execution_time_ms = None
           => ResolvedName \notin DOMAIN agents)
       /\ (ResolvedName \in DOMAIN agents => TimedNonNegative(call.response[1]))

\* C6 (amended): execution_time_ms of an execute_task response is None when no
\* adapter was dispatched (unregistered type, or unavailable type without a
\* usable fallback) and when the orchestrator caught an exception raised by the
\* adapter's execute; when one of the three framework adapters was dispatched
\* and returned, it is a non-negative integer.
C6_Amended ==
    ExecuteTaskReturned
    => /\ call.response # None
       /\ (call.invoked = <<>> \/ call.adapter_raised # NoExc
           => call.response[1].execution_time_ms = None)
       /\ (/\ call.invoked # <<>>
           /\ agents[call.adapter].cls \in FrameworkClasses
           => TimedNonNegative(call.response[1]))

C6_Witness ==
    /\ ExecuteTaskReturned
    /\ call.adapter = "crewai"
    /\ call.exc_step = "timeout"
    /\ call.response # None
    /\ call.response[1].execution_time_ms # None
    /\ call.response[1].execution_time_ms[1] >= TimeoutSeconds * MsPerSecond

\* C7: execute_task never raises; every call returns an AgentResponse, and every
\* failure (unknown type, unavailable without fallback, execution exception,
\* timeout) has success=false and a non-empty error text.
C7_NeverRaisesNonEmptyError ==
    ExecuteTaskReturned
    => /\ call.raised = NoExc
       /\ call.response # None
       /\ (~call.response[1].success
           => /\ call.response[1].error # None
              /\ call.response[1].error[1] # EmptyText)

\* C8: when the dispatched adapter's execute raises an exception with message m,
\* execute_task returns success=false with error exactly
\* "Agent execution failed: " followed by m, and nothing reaches the caller.
C8_AdapterExceptionConverted ==
    (ExecuteTaskReturned /\ call.adapter_raised # NoExc)
    => /\ FailedWithError
       /\ ErrorText = <<"Agent", "execution", "failed:">>
                        \o (IF call.adapter_raised.args = <<>> THEN <<>>
                            ELSE call.adapter_raised.args[1])

C8_Witness ==
    /\ ExecuteTaskReturned
    /\ call.adapter_raised.cls = "RuntimeError"
    /\ FailedWithError
    /\ ErrorText = <<"Agent", "execution", "failed:", "boom">>

\* the framework's name as it appears in an adapter's error text
FrameworkName(cls) ==
    CASE cls = "PraisonAIAgent" -> "PraisonAI"
      [] cls = "CrewAIAgent"    -> "CrewAI"
      [] cls = "AG2Agent"       -> "AG2/AutoGen"

\* a direct call of the execute of a framework adapter that is not available
DirectUnavailable ==
    /\ call.entry = "execute"
    /\ agents[call.adapter].cls \in FrameworkClasses
    /\ ~agents[call.adapter].available

\* C9: execute called directly on an unavailable framework adapter returns at
\* once with success=false, an error naming the framework and containing
\* "not available", and execution_time_ms None; no framework object is built
\* and no worker is started.
C9_UnavailableReturnsAtOnce ==
    DirectUnavailable
    => /\ call.pc \in {"adapter_entry", "adapter_done", "returned"}
       /\ call.built = 0
       /\ call.workers_started = 0
       /\ worker.state = "none"
       /\ (call.pc # "adapter_entry"
           => /\ call.adapter_raised = NoExc
              /\ call.adapter_response # None
              /\ ~call.adapter_response[1].success
              /\ call.adapter_response[1].error # None
              /\ Contains(call.adapter_response[1].error[1],
                          <<FrameworkName(agents[call.adapter].cls)>>)
              /\ Contains(call.adapter_response[1].error[1], <<"not", "available">>)
              /\ call.adapter_response[1].execution_time_ms = None)
       /\ (call.pc = "returned"
           => call.raised = NoExc /\ call.response = call.adapter_response)

C9_Witness ==
    /\ DirectUnavailable
    /\ call.pc = "returned"
    /\ call.adapter = "ag2"
    /\ call.response # None
    /\ ~call.response[1].success

\* the adapter's execute is over
AdapterOver == call.pc \in {"adapter_done", "returned"}

\* C10: an exception raised at any step of an available framework adapter's
\* execute (build, framework call in the worker, the wait including its timeout,
\* result extraction) is caught inside execute, which returns success=false with
\* error equal to str(exception); no exception leaves the adapter.
C10_AdapterCatchesEverything ==
    /\ (call.pc # "idle" /\ call.adapter # ""
        /\ agents[call.adapter].cls \in FrameworkClasses)
       => call.adapter_raised = NoExc /\ call.raised = NoExc
    /\ (AdapterOver /\ call.exc # NoExc)
       => /\ call.adapter_response # None
          /\ ~call.adapter_response[1].success
          /\ call.adapter_response[1].error
               = Some(IF call.exc.args = <<>> THEN <<>> ELSE call.exc.args[1])
    /\ (AdapterOver /\ call.adapter_response # None
        /\ call.adapter_response[1].success)
       => call.exc = NoExc

C10_Witness ==
    /\ AdapterOver
    /\ call.exc_step = "timeout"
    /\ call.exc = TimeoutError
    /\ call.adapter_response # None
    /\ ~call.adapter_response[1].success

\* C11: once the 60-second timeout has elapsed with the framework call still
\* running, the adapter's execute goes on to return its failure without waiting
\* for the worker: the calling thread's next step never depends on the worker
\* having finished.
C11_TimeoutDoesNotWaitForWorker ==
    (call.pc = "exit_pool" /\ call.exc_step = "timeout")
    => ENABLED ExitPool

\* the adapter whose execute ran is a framework adapter that passed its
\* availability check
StartedFrameworkAdapter ==
    /\ call.adapter # ""
    /\ agents[call.adapter].cls \in FrameworkClasses
    /\ agents[call.adapter].available

\* C12: every response an available framework adapter returns once it has
\* passed its availability check, on the success path and on every failure
\* path, carries a non-None, non-negative execution_time_ms.
C12_TimedOnceStarted ==
    (AdapterOver /\ StartedFrameworkAdapter)
    => /\ call.adapter_response # None
       /\ TimedNonNegative(call.adapter_response[1])
       /\ call.adapter_response[1].execution_time_ms[1]
            <= (now - call.start_time) \div 1000

C12_Witness ==
    /\ AdapterOver
    /\ StartedFrameworkAdapter
    /\ call.exc_step = "build"
    /\ call.adapter_response # None
    /\ ~call.adapter_response[1].success
    /\ call.adapter_response[1].execution_time_ms = Some(1)

\* the result / error contract of one AgentResponse
WellFormedResponse(r) ==
    /\ r.success => (r.result # None /\ r.metadata # None /\ r.error = None)
    /\ ~r.success => (r.error # None /\ r.result = None)

\* C13: every AgentResponse produced by an adapter's execute or by execute_task
\* has, when success is true, a result and metadata and no error, and, when
\* success is false, an error and no result.
C13_ResultXorError ==
    /\ call.adapter_response # None => WellFormedResponse(call.adapter_response[1])
    /\ call.response # None => WellFormedResponse(call.response[1])

\* C14: when execute_task dispatched to an adapter whose execute returned
\* normally, the caller gets exactly the adapter's AgentResponse, every field
\* unchanged, whether it reports success or failure.
C14_ResponsePassedThrough ==
    (ExecuteTaskReturned /\ call.invoked # <<>> /\ call.adapter_raised = NoExc)
    => /\ call.raised = NoExc
       /\ call.adapter_response # None
       /\ call.response = call.adapter_response
       /\ (agents[call.adapter].cls = StubClass
           => call.response[1] \in StubResponses)
       /\ (agents[call.adapter].cls \in FrameworkClasses /\ call.response[1].success
           => call.response[1].metadata
                = Some([framework |-> call.adapter,
                        agents_used |-> IF call.adapter = "ag2" THEN 2 ELSE 1]))

C14_Witness ==
    /\ ExecuteTaskReturned
    /\ call.adapter = "test_agent"
    /\ call.adapter_raised = NoExc
    /\ call.response # None
    /\ ~call.response[1].success
    /\ call.response[1].error = Some(<<"Test", "error">>)
    /\ call.response[1].execution_time_ms = Some(50)
    /\ call.response[1].metadata # None

\* the registry's keys whose adapter is available
AvailableKeys == { k \in DOMAIN agents : agents[k].available }

\* the elements of a list
Elements(list) == { list[i] : i \in 1..Len(list) }

\* C15: get_available_agents returns exactly the registered keys whose adapter
\* has available=true, each once, and, the registry never changing, every call
\* returns that same list.
C15_ExactlyTheAvailableKeys ==
    /\ [](call.entry = "get_available_agents" /\ call.pc = "returned"
          => /\ call.available_agents # None
             /\ Elements(call.available_agents[1]) = AvailableKeys
             /\ Len(call.available_agents[1]) = Cardinality(AvailableKeys))
    /\ [][agents' = agents]_vars
    /\ [][call'.entry = "get_available_agents" /\ call'.pc = "returned"
          => call'.available_agents
               = Some(SelectSeq(<<"praisonai", "crewai", "ag2", "mock", "test_agent">>,
                                LAMBDA k : k \in AvailableKeys))]_vars

C15_Witness ==
    /\ call.entry = "get_available_agents"
    /\ call.pc = "returned"
    /\ call.available_agents = Some(<<"praisonai", "ag2">>)
    /\ "crewai" \in DOMAIN agents

\* C16: get_agent_info(k) for a registered key k returns name (the adapter's
\* name), available (the adapter's flag), type (k) and description; for an
\* unregistered key it returns a dict with an error entry; it never raises.
C16_InfoOrErrorObject ==
    (call.entry = "get_agent_info" /\ call.pc = "returned")
    => /\ call.raised = NoExc
       /\ call.agent_info # None
       /\ LET info == call.agent_info[1]
              k == call.requested
          IN  IF k \in DOMAIN agents
              THEN /\ info.name = Some(agents[k].name)
                   /\ info.available = Some(agents[k].available)
                   /\ info.type = Some(k)
                   /\ info.description # None
                   /\ info.error = None
              ELSE /\ info.error # None
                   /\ info.error[1] # EmptyText

C16_Witness ==
    /\ call.entry = "get_agent_info"
    /\ call.pc = "returned"
    /\ call.requested = "mock"
    /\ "mock" \in DOMAIN agents
    /\ call.agent_info # None
    /\ call.agent_info[1].type = Some("mock")
    /\ call.agent_info[1].available = Some(FALSE)
    /\ call.agent_info[1].description = Some(<<"Unknown", "agent", "type">>)

\* C17: no execute_task, get_available_agents or get_agent_info call, whatever
\* its outcome, changes the key-to-adapter mapping or an adapter's available
\* flag; so get_agent_info returns for a key, known or unknown, the value the
\* unchanged registry determines, the same on every call.
C17_RegistryNeverMutated ==
    /\ [][/\ DOMAIN agents' = DOMAIN agents
          /\ \A k \in DOMAIN agents :
                /\ agents'[k].available = agents[k].available
                /\ agents'[k] = agents[k]]_vars
    /\ [](call.entry = "get_agent_info" /\ call.pc = "returned"
          /\ call.requested \notin DOMAIN agents
          => call.agent_info
               = Some([name |-> None, available |-> None, type |-> None,
                       description |-> None,
                       error |-> Some(<<"Agent", "type", "'", call.requested, "'",
                                        "not", "found">>)]))

C17_Witness ==
    /\ call.entry = "get_agent_info"
    /\ call.pc = "returned"
    /\ call.requested = "nonexistent_agent"
    /\ call.agent_info # None
    /\ call.agent_info[1].error # None
    /\ DOMAIN agents = {"test_agent"}

\* _initialize_agents has returned
Initialized == call.pc # "init"

\* C18: after initialization the registered keys are exactly praisonai, crewai
\* and ag2 whatever the imports did; "mock" is never registered, so every
\* execute_task for a registered but unavailable type returns the no-fallback
\* failure.
C18_ThreeKeysNoMock ==
    /\ Initialized => DOMAIN agents = {"praisonai", "crewai", "ag2"}
    /\ "mock" \notin DOMAIN agents
    /\ (/\ ExecuteTaskReturned
        /\ ResolvedName \in DOMAIN agents
        /\ ~agents[ResolvedName].available)
       => /\ FailedWithError
          /\ call.invoked = <<>>
          /\ ErrorText = <<"Agent", "'", ResolvedName, "'", "not", "available",
                           "and", "no", "fallback">>

C18_Witness ==
    /\ ExecuteTaskReturned
    /\ call.requested = "autogen"
    /\ DOMAIN agents = {"praisonai", "crewai", "ag2"}
    /\ ~agents["ag2"].available
    /\ agents["crewai"].available
    /\ FailedWithError
    /\ Contains(ErrorText, <<"'", "ag2", "'", "not", "available", "and", "no", "fallback">>)

\* C19: constructing an adapter never raises; available ends true exactly when
\* the primary import succeeded, or (PraisonAI and AG2 only) the primary import
\* raised an import error and the one fallback import succeeded; otherwise
\* available ends false.
C19_ConstructorNeverRaises ==
    call.pc = "init"
    => \A i \in 1..Len(call.imports) :
          LET made == call.imports[i]
          IN  /\ made.raised = "none"
              /\ made.key \in DOMAIN agents
              /\ agents[made.key].available = made.available
              /\ made.available
                   = \/ made.primary = "ok"
                     \/ /\ made.key \in {"praisonai", "ag2"}
                        /\ made.primary = "ImportError"
                        /\ made.fallback = "ok"
              /\ made.fallback # "untried"
                   <=> (made.key \in {"praisonai", "ag2"} /\ made.primary = "ImportError")

C19_Witness ==
    /\ call.pc = "init"
    /\ Len(call.imports) = 3
    /\ call.imports[1].primary = "ImportError" /\ call.imports[1].fallback = "ok"
    /\ agents["praisonai"].available
    /\ call.imports[2].primary = "ImportError" /\ ~agents["crewai"].available
    /\ call.imports[3].primary = "ImportError" /\ call.imports[3].fallback = "Exception"
    /\ ~agents["ag2"].available

\* C20: a GET /v1/agents request with a valid bearer JWT is answered, not with
\* an HTTP error, but with available_agents (the available type keys) and
\* agent_details mapping each registered type to its name, available, type
\* and description record.
C20_AgentsListed ==
    (call.entry = "get_agents" /\ call.pc = "returned" /\ call.token = "valid")
    => /\ call.http # None
       /\ call.http[1].status = 200
       /\ call.http[1].body # None
       /\ call.http[1].body[1].available_agents = get_available_agents
       /\ DOMAIN call.http[1].body[1].agent_details = DOMAIN agents
       /\ \A k \in DOMAIN agents :
             call.http[1].body[1].agent_details[k] = get_agent_info(k)

\* the requested type is registered but unavailable and the adapter under
\* "mock" is available
FallbackCase ==
    /\ call.entry = "execute_task"
    /\ ResolvedName \in DOMAIN agents
    /\ ~agents[ResolvedName].available
    /\ "mock" \in DOMAIN agents
    /\ agents["mock"].available

\* C25: when the requested adapter is unavailable and the adapter registered
\* under "mock" is available, execute_task calls the mock adapter's execute
\* exactly once with the caller's task and context and returns its response;
\* the unavailable adapter's execute is not called.
C25_FallsBackToMock ==
    FallbackCase
    => /\ call.invoked = <<"mock">>
       /\ call.adapter = "mock"
       /\ call.recv_task = Some(call.task)
       /\ call.recv_context = Some(call.context)
       /\ (call.pc = "returned" /\ call.adapter_raised = NoExc)
          => /\ call.adapter_response # None
             /\ call.response = call.adapter_response

C25_Witness ==
    /\ FallbackCase
    /\ call.pc = "returned"
    /\ call.requested = "autogen"
    /\ call.context = Some("ctx")
    /\ call.invoked = <<"mock">>
    /\ call.response # None
    /\ call.response[1].success
    /\ call.response[1].result = Some(<<"Test", "response">>)

\* C27: within one execute_task call at most one adapter's execute is invoked,
\* at most once, and only on an adapter whose available flag was true when the
\* orchestrator checked it.
C27_AtMostOneAvailableAdapter ==
    call.entry = "execute_task"
    => /\ Len(call.invoked) <= 1
       /\ \A i \in 1..Len(call.invoked) :
             /\ call.invoked[i] \in DOMAIN agents
             /\ agents[call.invoked[i]].available
             /\ call.invoked[i] = call.adapter
       /\ call.workers_started <= 1

C27_Witness ==
    /\ ExecuteTaskReturned
    /\ call.invoked = <<"crewai">>
    /\ call.workers_started = 1
    /\ call.exc_step = "worker"
    /\ call.response # None
    /\ ~call.response[1].success

\* the response execute_task returns for the call's own request and its own
\* framework outcome, when nothing else runs
AloneResponse ==
    LET entered == ExecuteTaskEntry(call.requested, call.task, call.context)
    IN  IF entered.pc = "returned" THEN entered.response
        ELSE IF call.adapter_raised # NoExc
        THEN Some(ExecutionFailedResponse(call.adapter_raised))
        ELSE IF agents[entered.adapter].cls = StubClass
        THEN call.adapter_response
        ELSE IF call.exc # NoExc
        THEN Some(ExceptResponse(call.exc, call.response[1].execution_time_ms[1]))
        ELSE Some(SuccessResponse(agents[entered.adapter].cls, call.shape,
                                  call.response[1].execution_time_ms[1]))

C23_LoopFreeWhileWaiting ==
    (call.pc = "wait" /\ ready # <<>>) => ENABLED RunReady

\* a POST /v1/answer request whose token was verified has been answered
AnswerDone == req.endpoint = "answer" /\ req.pc = "done" /\ req.user # None

\* C21: for an authenticated POST /v1/answer with the database working,
\* whatever AgentResponse execute_task returns reaches the client as an
\* envelope with the same success, result, error, execution_time_ms and
\* metadata plus session_id, message_id and agent_type, not as an HTTP error.
C21_EnvelopeForEveryResponse ==
    (AnswerDone /\ req.exc # DbError)
    => /\ req.http # None
       /\ req.http[1].status = 200
       /\ req.http[1].body # None
       /\ call.response # None
       /\ LET body == req.http[1].body[1]
              r == call.response[1]
          IN  /\ body.success = r.success
              /\ body.result = r.result
              /\ body.error = r.error
              /\ body.execution_time_ms = r.execution_time_ms
              /\ body.metadata = r.metadata
              /\ Some(body.session_id) = req.session_id
              /\ Some(body.message_id) = req.message_id
              /\ body.agent_type = req.agent_type

\* the orchestrator, the database and the counter are as at process start
NothingDone ==
    /\ store = InitialStore
    /\ metrics = ZeroMetrics
    /\ worker = IdleWorker

\* C24: the orchestrator is invoked and records are persisted only after the
\* bearer JWT has been verified; a request whose verification fails (expired,
\* invalid, missing user id, key lookup failing) ends with HTTP 401 and no
\* orchestrator call, metric or record; GET /v1/health answers status, service
\* and version without authentication.
C24_VerifiedBeforeAnythingElse ==
    /\ (req.endpoint = "answer" /\ req.token # "valid")
       => /\ req.pc = "done"
          /\ req.http # None
          /\ req.http[1].status = 401
          /\ req.http[1].body = None
          /\ req.steps = <<>>
          /\ call = IdleCall
          /\ NothingDone
    /\ (req.endpoint = "answer" /\ (call # IdleCall \/ ~NothingDone))
       => req.token = "valid" /\ req.user # None
    /\ (call.entry = "get_agents" /\ call.token # "valid")
       => /\ call.http # None
          /\ call.http[1].status = 401
          /\ call.http[1].body = None
          /\ call.available_agents = None
          /\ call.agent_info = None
          /\ NothingDone
    /\ req.endpoint = "health"
       => /\ req.user = None
          /\ req.http = Some([status |-> 200, detail |-> None,
                              body |-> Some([status |-> "healthy",
                                             service |-> "fastapi-agent-backend",
                                             version |-> "1.0.0"])])

C24_Witness ==
    /\ req.endpoint = "answer"
    /\ req.token = "no_sub"
    /\ req.pc = "done"
    /\ req.http # None
    /\ req.http[1].status = 401
    /\ req.http[1].detail = Some(<<"Authentication", "failed">>)

\* rows the request wrote
NewMessages == store.messages \ InitialStore.messages
NewExecutions == store.executions \ InitialStore.executions
NewSessions == store.sessions \ InitialStore.sessions

\* increments of agent_executions_total for the request's agent_type
ExecutionsCounted ==
    metrics[<<req.agent_type, "success">>] + metrics[<<req.agent_type, "failure">>]
        + metrics[<<req.agent_type, "error">>]

\* C26: a POST /v1/answer request that returns an envelope has done, in this
\* order and each once: resolve the session (one create when no session_id
\* was supplied, else reuse the supplied id and create none), save the user
\* message, call execute_task, record the metric, save the assistant message,
\* save the execution record, return the envelope; the three records and the
\* envelope carry the same session_id.
C26_StepsInOrder ==
    (AnswerDone /\ req.http # None /\ req.http[1].status = 200)
    => /\ req.steps = << IF req.supplied = None THEN "session_created" ELSE "session_reused",
                         "user_message", "execute_task", "metric",
                         "assistant_message", "execution_record", "envelope" >>
       /\ IF req.supplied = None
          THEN /\ NewSessions = {AgentSession(req.session_id[1], RequestUser)}
               /\ req.session_id[1] \notin { x.id : x \in InitialStore.sessions }
          ELSE /\ NewSessions = {}
               /\ req.session_id = req.supplied
       /\ { [message_type |-> x.message_type, session_id |-> x.session_id] : x \in NewMessages }
            = { [message_type |-> "user", session_id |-> req.session_id[1]],
                [message_type |-> "assistant", session_id |-> req.session_id[1]] }
       /\ Cardinality(NewMessages) = 2
       /\ Cardinality(NewExecutions) = 1
       /\ \A x \in NewExecutions : x.session_id = req.session_id[1]
       /\ req.http[1].body[1].session_id = req.session_id[1]
       /\ ExecutionsCounted = 1
       /\ metrics[<<req.agent_type, "error">>] = 0
       /\ call.entry = "execute_task" /\ call.pc = "returned"

C26_Witness ==
    /\ AnswerDone
    /\ req.http # None
    /\ req.http[1].status = 200
    /\ req.supplied = Some("s_own")
    /\ req.agent_type = "ag2"
    /\ call.exc_step = "timeout"
    /\ ~req.http[1].body[1].success
    /\ req.http[1].body[1].session_id = "s_own"

\* C28: a POST /v1/answer request that reaches the handler increments
\* agent_executions_total exactly once, whatever step of the handler fails.
C28_CountedExactlyOnce ==
    AnswerDone => ExecutionsCounted = 1

\* C29: every message and execution record written by POST /v1/answer belongs
\* to an existing session created by the same user.
C29_RecordsUnderOwnSession ==
    \A x \in NewMessages \cup NewExecutions :
        \E ses \in store.sessions : ses.id = x.session_id /\ ses.user_id = x.user_id

\* C30: a POST /v1/answer request that ends with HTTP 500 leaves the database
\* as it was before the request.
C30_NoPartialWrites ==
    (AnswerDone /\ req.http # None /\ req.http[1].status = 500)
    => store = InitialStore

====
